---- MODULE Spec2Model ----
(* A model of src/screens/MapScreen.js (the MapScreen component with search,  *)
(* routing and "locate me"): the component's React state, its asynchronous    *)
(* handlers cut at every await, and the pure conversions fetchRoute applies   *)
(* to a routing-service response.  The file also holds an earlier, smaller    *)
(* MapScreen (lines 1-56), which is not modelled.  The effect that calls      *)
(* mapRef.current.fitToCoordinates (lines 117-124) writes no state of the     *)
(* component and is left out.                                                 *)
(*                                                                            *)
(* Steps.  A handler runs from one await to the next without interruption;    *)
(* awaits that follow each other with no access to the component's state in  *)
(* between (fetch, then response.json()) are one step, taken when the last of *)
(* them settles.                                                              *)
(*                                                                            *)
(* Conventions.  A JavaScript value that may be null/undefined is a sequence  *)
(* of length 0 (null/undefined) or 1 (the value).  A JavaScript array is a    *)
(* sequence, read with the 0-based index of the source through At.  Numbers   *)
(* that the code only copies are integers standing for the double that was   *)
(* received; strings the code builds are sequences of one-character strings.  *)
EXTENDS Integers, Sequences, FiniteSets, TLC

VARIABLES region, searchQuery, errorMsg, loading, origin, destination, route,
          distance, initPc, tasks, started, alert, ev, early, remembered

vars == <<region, searchQuery, errorMsg, loading, origin, destination, route,
          distance, initPc, tasks, started, alert, ev, early, remembered>>

(* region .. distance are the component's useState cells.  initPc is where    *)
(* the initial effect stands, tasks the handler runs and where each stands,   *)
(* started their count.  alert is the Alert.alert of the last step.  History, *)
(* read by the properties only: ev is the fetchRoute call that settled in the *)
(* last step, early whether a fetchRoute call returned at its first line in   *)
(* the last step, remembered one earlier conversion.                          *)

-----------------------------------------------------------------------------
(* Bounds of the model.                                                       *)

\* longest coordinate list of a generated routing response
MaxPts == 2
\* handler runs (searchLocation past its blank check, locateMe, a map press)
\* in one behaviour of the whole component; all may be in flight at once
MaxOps == 2
\* map presses in one behaviour of the decoding specification
MaxDecodes == 3

-----------------------------------------------------------------------------
(* JavaScript values.                                                         *)

null == <<>>
Some(x) == <<x>>

\* arr[i] of the source, i counted from 0: undefined outside the array
At(arr, i) == IF i + 1 \in DOMAIN arr THEN Some(arr[i + 1]) ELSE null

\* a {latitude, longitude} object
LatLng(lat, lng) == [latitude |-> lat, longitude |-> lng]

-----------------------------------------------------------------------------
(* What the routing service may answer (the input of fetchRoute).             *)

\* one entry of geometry.coordinates: an array, or null
Arr(items) == [isArray |-> TRUE, items |-> items]
NullEntry == [isArray |-> FALSE, items |-> <<>>]

\* a [lon, lat] pair, and an entry whose latitude is missing
CoordEntries == {Arr(<<1, 2>>), Arr(<<1>>)}

RECURSIVE ListsUpTo(_, _)
ListsUpTo(S, n) ==
    IF n = 0 THEN {<<>>}
    ELSE LET shorter == ListsUpTo(S, n - 1)
         IN  shorter \cup {Append(l, e) : l \in {s \in shorter : Len(s) = n - 1}, e \in S}

\* the canonical three points as GeoJSON [lon, lat] pairs, in units of 1e-5 degree
CanonicalCoordinates ==
    << Arr(<<-12020000, 3850000>>), Arr(<<-12095000, 4070000>>),
       Arr(<<-12645300, 4325200>>) >>

\* "_p~iF~ps|U_ulLnnqC_mqNvxq`@" as character codes, and the same cut mid-chunk
CanonicalPolyline ==
    << 95, 112, 126, 105, 70, 126, 112, 115, 124, 85, 95, 117, 108, 76, 110,
       110, 113, 67, 95, 109, 113, 78, 118, 120, 113, 96, 64 >>
TruncatedPolyline == SubSeq(CanonicalPolyline, 1, 25)

\* geometry as GeoJSON (geometries=geojson): an object with a coordinates array
GeoJson(list) == [isString |-> FALSE, chars |-> <<>>, coordinates |-> Some(list)]
\* geometry as an encoded polyline: a string, which has no coordinates property
Encoded(chars) == [isString |-> TRUE, chars |-> chars, coordinates |-> null]

\* every list of entries up to MaxPts, lists with a null entry, the canonical
\* points; the empty string and the canonical polyline, whole and truncated
Geometries ==
    {GeoJson(l) : l \in ListsUpTo(CoordEntries, MaxPts)
                        \cup {<<NullEntry>>, <<Arr(<<1, 2>>), NullEntry>>}
                        \cup {CanonicalCoordinates}}
    \cup {Encoded(s) : s \in {<<>>, CanonicalPolyline, TruncatedPolyline}}

\* routes[0].distance in metres: exact ties of the second decimal of the
\* kilometre value (15, 125), values off a tie, and Sao Paulo - Rio
DistanceMeters == {0, 15, 125, 1009, 357004}

NoGeometry == Encoded(<<>>)

\* the answers with a routes[0] (kind "routes"): every geometry with one
\* distance, and one geometry with every distance
RouteResponses ==
    {[kind |-> "routes", geometry |-> g, distance |-> 1009] : g \in Geometries}
    \cup {[kind |-> "routes", geometry |-> GeoJson(<<Arr(<<1, 2>>)>>), distance |-> d] :
            d \in DistanceMeters}

\* the answers the model of the whole component draws from.  kind: the fetch
\* rejected, response.ok false, response.json() rejected, no or empty
\* data.routes, or a routes[0]: with no point, a point, a point missing its
\* latitude, a null entry, an encoded polyline
CoreResponses ==
    {[kind |-> k, geometry |-> NoGeometry, distance |-> 0] :
        k \in {"rejected", "notOk", "badJson", "noRoutes"}}
    \cup {[kind |-> "routes", geometry |-> g, distance |-> 1009] :
            g \in {GeoJson(<<>>), GeoJson(<<Arr(<<1, 2>>)>>), GeoJson(<<Arr(<<1>>)>>),
                    GeoJson(<<NullEntry>>), Encoded(CanonicalPolyline)}}
    \cup {[kind |-> "routes", geometry |-> GeoJson(<<Arr(<<1, 2>>)>>), distance |-> 125]}

-----------------------------------------------------------------------------
(* fetchRoute's conversions.                                                  *)

\* variants of the conversion, as slips of the code would make it: the points
\* in reverse order, the last entry left out, a running sum of the entries,
\* latitude and longitude taken from the wrong index
coordinatesReversed(list) ==
    [i \in 1..Len(list) |->
        LatLng(At(list[Len(list) + 1 - i].items, 1), At(list[Len(list) + 1 - i].items, 0))]
coordinatesShort(list) ==
    [i \in 1..(IF Len(list) = 0 THEN 0 ELSE Len(list) - 1) |->
        LatLng(At(list[i].items, 1), At(list[i].items, 0))]
RECURSIVE sumTo(_, _, _)
sumTo(list, k, i) ==
    LET v == At(list[k].items, i)
    IN  IF v = null THEN null
        ELSE IF k = 1 THEN v
        ELSE LET rest == sumTo(list, k - 1, i)
             IN  IF rest = null THEN null ELSE Some(rest[1] + v[1])
coordinatesSummed(list) ==
    [k \in 1..Len(list) |-> LatLng(sumTo(list, k, 1), sumTo(list, k, 0))]
coordinatesSwapped(list) ==
    [i \in 1..Len(list) |-> LatLng(At(list[i].items, 0), At(list[i].items, 1))]

\* coord => ({latitude: coord[1], longitude: coord[0]}) over the whole array
coordinates(list) ==
    [i \in 1..Len(list) |-> LatLng(At(list[i].items, 1), At(list[i].items, 0))]

\* geometry.coordinates.map throws a TypeError: coordinates is undefined (the
\* geometry is a string), or the callback indexes a null entry
mapThrows(geometry) ==
    \/ geometry.coordinates = null
    \/ \E i \in 1..Len(geometry.coordinates[1]) : ~geometry.coordinates[1][i].isArray

\* the binary exponent e of d / 1000: 2^e <= d / 1000 < 2^(e + 1), for d >= 1
RECURSIVE exponentUp(_, _)
exponentUp(d, e) == IF 1000 * (2 ^ (e + 1)) <= d THEN exponentUp(d, e + 1) ELSE e
RECURSIVE exponentDown(_, _)
exponentDown(d, t) == IF d * (2 ^ t) < 1000 THEN exponentDown(d, t + 1) ELSE t
exponent(d) == IF d >= 1000 THEN exponentUp(d, 0) ELSE 0 - exponentDown(d, 1)

RECURSIVE powMod(_, _)
powMod(s, m) == IF s = 0 THEN 1 % m ELSE (2 * powMod(s - 1, m)) % m

\* The double d / 1000 is d / 1000 rounded to a 53-bit significand.  It lies
\* below the real quotient iff the discarded part of d * 2^(52 - e) / 1000 is
\* not zero and under one half.
quotientBelow(d) ==
    LET rem == ((d % 1000) * powMod(52 - exponent(d), 1000)) % 1000
    IN  rem # 0 /\ rem < 500

\* toFixed as a truncation of the decimals instead of a rounding
toFixedHundredthsTruncated(d) == d \div 10

\* Number.prototype.toFixed(2) of the double d / 1000, as the integer n of
\* hundredths it prints: n / 100 nearest to the double, the larger n on a tie
toFixedHundredths(d) ==
    LET q == d \div 10
        r == d % 10
    IN  IF r < 5 THEN q
        ELSE IF r > 5 THEN q + 1
        ELSE IF quotientBelow(d) THEN q ELSE q + 1

Digit(n) == <<"0", "1", "2", "3", "4", "5", "6", "7", "8", "9">>[n + 1]
RECURSIVE Digits(_)
Digits(n) == IF n < 10 THEN <<Digit(n)>> ELSE Append(Digits(n \div 10), Digit(n % 10))

\* the number printed the way String(n) prints a whole number: no decimals
toFixedWhole(d) == Digits(toFixedHundredths(d) \div 100)

\* the string toFixed(2) prints: integer part, ".", two decimals
toFixed(d) ==
    LET n == toFixedHundredths(d)
    IN  Digits(n \div 100) \o <<".">> \o <<Digit((n % 100) \div 10), Digit(n % 10)>>

\* (data.routes[0].distance / 1000).toFixed(2) + ' km'
distanceText(d) == toFixed(d) \o <<" ", "k", "m">>
\* the same, computed once for each distance the service answers
distanceTexts == [d \in DistanceMeters |-> distanceText(d)]

\* fetchRoute taking a route without points for a missing route
fetchRouteErrorEmpty(resp) ==
    CASE resp.kind = "rejected" -> Some("Network request failed")
      [] resp.kind = "notOk"    -> Some("Erro ao calcular rota")
      [] resp.kind = "badJson"  -> Some("JSON Parse error")
      [] resp.kind = "noRoutes" -> Some("Rota não disponível")
      [] OTHER -> IF mapThrows(resp.geometry) THEN Some("TypeError")
                  ELSE IF resp.geometry.coordinates[1] = <<>>
                         THEN Some("Rota não disponível")
                         ELSE null

\* what fetchRoute throws into its catch for a response: null if nothing
fetchRouteError(resp) ==
    CASE resp.kind = "rejected" -> Some("Network request failed")
      [] resp.kind = "notOk"    -> Some("Erro ao calcular rota")
      [] resp.kind = "badJson"  -> Some("JSON Parse error")
      [] resp.kind = "noRoutes" -> Some("Rota não disponível")
      [] OTHER -> IF mapThrows(resp.geometry) THEN Some("TypeError") ELSE null

-----------------------------------------------------------------------------
(* Inputs of the other handlers.                                              *)

\* positions Location.getCurrentPositionAsync may resolve with
Positions == {LatLng(1, 2), LatLng(2, 1)}
\* places a map press or a geocoding answer may name
Places == {LatLng(3, 4), LatLng(4, 3)}
\* texts typed into the search field: empty, blank, a place name
Queries == {<<>>, <<" ">>, <<"a">>}

\* String.prototype.trim
RECURSIVE trimStart(_)
trimStart(s) == IF s # <<>> /\ Head(s) = " " THEN trimStart(Tail(s)) ELSE s
RECURSIVE trimEnd(_)
trimEnd(s) ==
    IF s # <<>> /\ s[Len(s)] = " " THEN trimEnd(SubSeq(s, 1, Len(s) - 1)) ELSE s
trim(s) == trimEnd(trimStart(s))

\* answers of the geocoding request: rejected fetch, response.ok false, an
\* empty result list, or a first result naming a place
GeocodeResponses ==
    {[kind |-> k, place |-> LatLng(0, 0)] : k \in {"rejected", "notOk", "empty"}}
    \cup {[kind |-> "found", place |-> p] : p \in Places}

searchError(resp) ==
    CASE resp.kind = "rejected" -> "Network request failed"
      [] resp.kind = "notOk"    -> "Erro na requisição"
      [] OTHER                  -> "Local não encontrado"

-----------------------------------------------------------------------------
(* The component: its state after construction.                               *)

\* a handler in flight, suspended at an await.  org and dst are the origin
\* and destination its closure (or its fetchRoute call) holds.
Idle == [kind |-> "idle", pc |-> "idle", org |-> null, dst |-> null]
Task(kind, pc, org, dst) == [kind |-> kind, pc |-> pc, org |-> org, dst |-> dst]

\* the handler runs, numbered in the order they start
TaskIds == DOMAIN tasks
HasFree == started < Len(tasks)
Free == started + 1

\* useState initial values, in units of 1e-5 degree
SaoPauloLatitude == -2355050
SaoPauloLongitude == -4663330
LatitudeDelta == 9220
LongitudeDelta == 4210

Init ==
    /\ region = [latitude |-> SaoPauloLatitude, longitude |-> SaoPauloLongitude,
                 latitudeDelta |-> LatitudeDelta, longitudeDelta |-> LongitudeDelta]
    /\ searchQuery = <<>>
    /\ errorMsg = null
    /\ loading = FALSE
    /\ origin = null
    /\ destination = null
    /\ route = <<>>
    /\ distance = null
    /\ initPc = "mount"
    /\ tasks = [t \in 1..MaxOps |-> Idle]
    /\ started = 0
    /\ alert = null
    /\ ev = null
    /\ early = FALSE
    /\ remembered = null

-----------------------------------------------------------------------------
(* 1. The initial-location effect.                                            *)

\* a finally block that leaves loading as it finds it
finallyLoadingSkipped == loading

\* the value the finally block of the initial effect, of searchLocation and
\* of locateMe stores in loading: setLoading(false)
finallyLoading == FALSE

EffectStart ==
    /\ initPc = "mount"
    /\ loading' = TRUE
    /\ initPc' = "permission"
    /\ alert' = null /\ ev' = null /\ early' = FALSE
    /\ UNCHANGED <<started, region, searchQuery, errorMsg, origin, destination, route,
                   distance, tasks, remembered>>

\* requestForegroundPermissionsAsync settles: granted, another status, rejected
PermissionResolve(status) ==
    /\ initPc = "permission"
    /\ IF status = "granted"
         THEN /\ initPc' = "position"
              /\ UNCHANGED <<errorMsg, loading>>
         ELSE /\ errorMsg' = Some(IF status = "denied"
                                    THEN "Permissão de localização negada"
                                    ELSE "Não foi possível obter a localização")
              /\ loading' = finallyLoading
              /\ initPc' = "done"
    /\ alert' = null /\ ev' = null /\ early' = FALSE
    /\ UNCHANGED <<started, region, searchQuery, origin, destination, route, distance,
                   tasks, remembered>>

\* getCurrentPositionAsync settles: a position (pos = <<p>>) or rejected (<<>>)
PositionResolve(pos) ==
    /\ initPc = "position"
    /\ IF pos # null
         THEN /\ region' = [latitude |-> pos[1].latitude, longitude |-> pos[1].longitude,
                            latitudeDelta |-> LatitudeDelta,
                            longitudeDelta |-> LongitudeDelta]
              /\ origin' = pos
              /\ UNCHANGED errorMsg
         ELSE /\ errorMsg' = Some("Não foi possível obter a localização")
              /\ UNCHANGED <<region, origin>>
    /\ loading' = finallyLoading
    /\ initPc' = "done"
    /\ alert' = null /\ ev' = null /\ early' = FALSE
    /\ UNCHANGED <<started, searchQuery, destination, route, distance, tasks, remembered>>

-----------------------------------------------------------------------------
(* The search field.                                                          *)

\* The handlers are reachable once the component is mounted: React runs the
\* effects of the first render before it handles an input event.
Mounted == initPc # "mount"

\* onChangeText={setSearchQuery}
ChangeText(q) ==
    /\ Mounted
    /\ searchQuery' = q
    /\ alert' = null /\ ev' = null /\ early' = FALSE
    /\ UNCHANGED <<started, region, errorMsg, loading, origin, destination, route, distance,
                   initPc, tasks, remembered>>

-----------------------------------------------------------------------------
(* 4. fetchRoute.                                                             *)

\* fetchRoute without the check of origin
fetchRouteIssuesAnyOrigin(org, dest) == dest # null

\* fetchRoute(dest) up to its first await, run by a handler whose closure holds
\* org: TRUE iff the request is issued, FALSE iff it returned at once
fetchRouteIssues(org, dest) == org # null /\ dest # null

\* fetchRoute adding the new points to the route it finds instead of
\* replacing it
fetchRouteSettleAppending(resp) ==
    LET error == fetchRouteError(resp)
    IN  IF error = null
          THEN [route    |-> route \o coordinates(resp.geometry.coordinates[1]),
                distance |-> Some(distanceTexts[resp.distance]),
                errorMsg |-> errorMsg]
          ELSE [route |-> route, distance |-> distance, errorMsg |-> error]

\* fetchRoute with a catch that also clears the route on display
fetchRouteSettleClearing(resp) ==
    LET error == fetchRouteError(resp)
    IN  IF error = null
          THEN [route    |-> coordinates(resp.geometry.coordinates[1]),
                distance |-> Some(distanceTexts[resp.distance]),
                errorMsg |-> errorMsg]
          ELSE [route |-> <<>>, distance |-> null, errorMsg |-> error]

\* fetchRoute storing the distance only with a route that has points
fetchRouteSettleSkipEmpty(resp) ==
    LET error == fetchRouteError(resp)
    IN  IF error = null
          THEN [route    |-> coordinates(resp.geometry.coordinates[1]),
                distance |-> IF resp.geometry.coordinates[1] = <<>>
                               THEN distance
                               ELSE Some(distanceTexts[resp.distance]),
                errorMsg |-> errorMsg]
          ELSE [route |-> route, distance |-> distance, errorMsg |-> error]

\* The rest of fetchRoute once the request settled with resp: the try block
\* to its end, or the catch.  next = the values of route, distance, errorMsg.
fetchRouteSettle(resp) ==
    LET error == fetchRouteError(resp)
    IN  IF error = null
          THEN [route    |-> coordinates(resp.geometry.coordinates[1]),
                distance |-> Some(distanceTexts[resp.distance]),
                errorMsg |-> errorMsg]
          ELSE [route |-> route, distance |-> distance, errorMsg |-> error]

\* fetchRoute with a catch that throws the error on to its caller
fetchRouteRethrows(resp) == fetchRouteError(resp) # null

\* whether the promise fetchRoute returned rejects, so that the awaiting
\* caller's catch runs: it never does, the catch of fetchRoute ends normally
fetchRouteRejects(resp) == FALSE

\* The routing request of task t settles.  fetchRoute finishes and, in the same
\* turn, so does the handler awaiting it (searchLocation, locateMe): its catch
\* if fetchRoute rejected, then its finally.  A map press awaits nothing.
RouteSettle(t, resp) ==
    /\ tasks[t].pc = "route"
    /\ LET next    == fetchRouteSettle(resp)
           awaited == tasks[t].kind \in {"search", "locate"}
           caught  == awaited /\ fetchRouteRejects(resp)
       IN  /\ route' = next.route
           /\ distance' = next.distance
           /\ errorMsg' =
                IF ~caught THEN next.errorMsg
                ELSE IF tasks[t].kind = "search" THEN fetchRouteError(resp)
                ELSE Some("Não foi possível atualizar a localização")
           /\ alert' = IF caught /\ tasks[t].kind = "search"
                         THEN Some(<<"Erro", fetchRouteError(resp)[1]>>)
                         ELSE null
           /\ loading' = IF awaited THEN finallyLoading ELSE loading
           /\ ev' = Some([call |-> t, caller |-> tasks[t].kind, resp |-> resp,
                          org |-> tasks[t].org, dst |-> tasks[t].dst,
                          failed |-> fetchRouteError(resp) # null, caught |-> caught])
           /\ early' = FALSE
    /\ tasks' = [tasks EXCEPT ![t] = Idle]
    /\ UNCHANGED <<started, region, searchQuery, origin, destination, initPc>>

RouteResolve(t, resp) == RouteSettle(t, resp) /\ UNCHANGED remembered

\* The same step in the decoding specification, which may keep one successful
\* conversion (its input and the route it stored), once, to compare later
\* ones with.
RouteResolveLogged(t, resp) ==
    /\ RouteSettle(t, resp)
    /\ \/ UNCHANGED remembered
       \/ /\ remembered = null
          /\ fetchRouteError(resp) = null
          /\ remembered' = Some([call |-> t, geometry |-> resp.geometry, route |-> route',
                                  org |-> tasks[t].org, dst |-> tasks[t].dst,
                                  meters |-> resp.distance, distance |-> distance'])

-----------------------------------------------------------------------------
(* 3. searchLocation (the Buscar button and onSubmitEditing).                 *)

SearchLocation ==
    /\ Mounted
    /\ IF trim(searchQuery) = <<>>
         THEN /\ alert' = Some(<<"Aviso", "Digite um local para buscar">>)
              /\ UNCHANGED <<loading, errorMsg, tasks, started>>
         ELSE /\ HasFree
              /\ loading' = TRUE
              /\ errorMsg' = null
              /\ tasks' = [tasks EXCEPT ![Free] = Task("search", "geocode", origin, null)]
              /\ started' = started + 1
              /\ alert' = null
    /\ ev' = null /\ early' = FALSE
    /\ UNCHANGED <<region, searchQuery, origin, destination, route, distance,
                   initPc, remembered>>

\* the geocoding request of task t settles
GeocodeResolve(t, resp) ==
    /\ tasks[t].kind = "search" /\ tasks[t].pc = "geocode"
    /\ IF resp.kind = "found"
         THEN /\ destination' = Some(resp.place)
              /\ alert' = null
              /\ UNCHANGED errorMsg
              /\ IF fetchRouteIssues(tasks[t].org, Some(resp.place))
                   THEN /\ tasks' = [tasks EXCEPT ![t] =
                                       Task("search", "route", tasks[t].org, Some(resp.place))]
                        /\ UNCHANGED loading
                        /\ early' = FALSE
                   ELSE /\ tasks' = [tasks EXCEPT ![t] = Idle]
                        /\ loading' = finallyLoading
                        /\ early' = TRUE
         ELSE /\ errorMsg' = Some(searchError(resp))
              /\ alert' = Some(<<"Erro", searchError(resp)>>)
              /\ loading' = finallyLoading
              /\ tasks' = [tasks EXCEPT ![t] = Idle]
              /\ early' = FALSE
              /\ UNCHANGED destination
    /\ ev' = null
    /\ UNCHANGED <<started, region, searchQuery, origin, route, distance, initPc, remembered>>

-----------------------------------------------------------------------------
(* 5. locateMe (the button is disabled while loading).                        *)

LocateMe ==
    /\ Mounted
    /\ ~loading
    /\ HasFree
    /\ loading' = TRUE
    /\ tasks' = [tasks EXCEPT ![Free] = Task("locate", "position", origin, destination)]
    /\ started' = started + 1
    /\ alert' = null /\ ev' = null /\ early' = FALSE
    /\ UNCHANGED <<region, searchQuery, errorMsg, origin, destination, route,
                   distance, initPc, remembered>>

\* getCurrentPositionAsync of task t settles: a position or rejected (<<>>)
LocateResolve(t, pos) ==
    /\ tasks[t].kind = "locate" /\ tasks[t].pc = "position"
    /\ IF pos # null
         THEN /\ origin' = pos
              /\ region' = [region EXCEPT !.latitude = pos[1].latitude,
                                          !.longitude = pos[1].longitude]
              /\ UNCHANGED errorMsg
              /\ IF tasks[t].dst # null /\ fetchRouteIssues(tasks[t].org, tasks[t].dst)
                   THEN /\ tasks' = [tasks EXCEPT ![t].pc = "route"]
                        /\ UNCHANGED loading
                   ELSE /\ tasks' = [tasks EXCEPT ![t] = Idle]
                        /\ loading' = finallyLoading
              /\ early' = (tasks[t].dst # null /\ ~fetchRouteIssues(tasks[t].org, tasks[t].dst))
         ELSE /\ errorMsg' = Some("Não foi possível atualizar a localização")
              /\ loading' = finallyLoading
              /\ tasks' = [tasks EXCEPT ![t] = Idle]
              /\ early' = FALSE
              /\ UNCHANGED <<origin, region>>
    /\ alert' = null /\ ev' = null
    /\ UNCHANGED <<started, searchQuery, destination, route, distance, initPc, remembered>>

-----------------------------------------------------------------------------
(* MapView onPress.                                                           *)

MapPress(p) ==
    /\ Mounted
    /\ HasFree
    /\ started' = started + 1
    /\ destination' = Some(p)
    /\ IF fetchRouteIssues(origin, Some(p))
         THEN tasks' = [tasks EXCEPT ![Free] = Task("press", "route", origin, Some(p))]
         ELSE UNCHANGED tasks
    /\ early' = ~fetchRouteIssues(origin, Some(p))
    /\ alert' = null /\ ev' = null
    /\ UNCHANGED <<region, searchQuery, errorMsg, loading, origin, route,
                   distance, initPc, remembered>>

-----------------------------------------------------------------------------

Next ==
    \/ EffectStart
    \/ \E status \in {"granted", "denied", "rejected"} : PermissionResolve(status)
    \/ \E pos \in {Some(p) : p \in Positions} \cup {null} : PositionResolve(pos)
    \/ \E q \in Queries : ChangeText(q)
    \/ SearchLocation
    \/ \E t \in TaskIds, resp \in GeocodeResponses : GeocodeResolve(t, resp)
    \/ LocateMe
    \/ \E t \in TaskIds, pos \in {Some(p) : p \in Positions} \cup {null} : LocateResolve(t, pos)
    \/ \E p \in Places : MapPress(p)
    \/ \E t \in TaskIds, resp \in CoreResponses : RouteResolve(t, resp)

Spec == Init /\ [][Next]_vars

\* The same component when every awaited call settles: the effect of the first
\* render runs, and each promise a handler awaits (the permission and position
\* requests, the geocoding and routing fetches) resolves or rejects at last.
\* Every handler and every exit path of it is taken, with one answer for each
\* path: what a route holds does not decide where a handler ends.
LiveFixes == {Some(LatLng(1, 2)), null}
LiveGeocodes ==
    {r \in GeocodeResponses : r.kind = "empty" \/ (r.kind = "found" /\ r.place = LatLng(3, 4))}
LiveRoutes ==
    {r \in CoreResponses :
        \/ r.kind = "noRoutes"
        \/ r.kind = "routes" /\ r.geometry = GeoJson(<<Arr(<<1, 2>>)>>) /\ r.distance = 1009}

NextLive ==
    \/ EffectStart
    \/ \E status \in {"granted", "denied", "rejected"} : PermissionResolve(status)
    \/ \E pos \in LiveFixes : PositionResolve(pos)
    \/ \E q \in {<<>>, <<"a">>} : ChangeText(q)
    \/ SearchLocation
    \/ \E t \in TaskIds, resp \in LiveGeocodes : GeocodeResolve(t, resp)
    \/ LocateMe
    \/ \E t \in TaskIds, pos \in LiveFixes : LocateResolve(t, pos)
    \/ MapPress(LatLng(3, 4))
    \/ \E t \in TaskIds, resp \in LiveRoutes : RouteResolve(t, resp)

Settles ==
    /\ WF_vars(EffectStart)
    /\ WF_vars(\E status \in {"granted", "denied", "rejected"} : PermissionResolve(status))
    /\ WF_vars(\E pos \in LiveFixes : PositionResolve(pos))
    /\ \A t \in 1..MaxOps :
          /\ WF_vars(\E resp \in LiveGeocodes : GeocodeResolve(t, resp))
          /\ WF_vars(\E pos \in LiveFixes : LocateResolve(t, pos))
          /\ WF_vars(\E resp \in LiveRoutes : RouteResolve(t, resp))

SpecLive == Init /\ [][NextLive]_vars /\ Settles

-----------------------------------------------------------------------------
(* The decoding specification: fetchRoute applied to every routing answer.    *)
(* It starts where the initial effect has stored a position and takes map    *)
(* presses only, so that each behaviour is a series of fetchRoute calls.      *)

InitDecode ==
    /\ region = [latitude |-> 1, longitude |-> 2,
                 latitudeDelta |-> LatitudeDelta, longitudeDelta |-> LongitudeDelta]
    /\ origin = Some(LatLng(1, 2))
    /\ searchQuery = <<>>
    /\ errorMsg = null
    /\ loading = FALSE
    /\ destination = null
    /\ route = <<>>
    /\ distance = null
    /\ initPc = "done"
    /\ tasks = [t \in 1..MaxDecodes |-> Idle]
    /\ started = 0
    /\ alert = null
    /\ ev = null
    /\ early = FALSE
    /\ remembered = null

NextDecode ==
    \/ MapPress(LatLng(3, 4))
    \/ \E t \in TaskIds, resp \in RouteResponses : RouteResolveLogged(t, resp)

SpecDecode == InitDecode /\ [][NextDecode]_vars

-----------------------------------------------------------------------------
(* The directions specification: fetchRoute called between the same two       *)
(* coordinates in both directions, and from a coordinate to itself.  It       *)
(* starts like the decoding specification; the user presses the map at the    *)
(* coordinates the device reports, and locateMe moves the origin to them.     *)

\* routing answers of the directions specification: every distance with a
\* one-point route, and a route without points
DirectionResponses ==
    {[kind |-> "routes", geometry |-> GeoJson(<<Arr(<<1, 2>>)>>), distance |-> d] :
        d \in DistanceMeters}
    \cup {[kind |-> "routes", geometry |-> GeoJson(<<>>), distance |-> 1009]}

NextDirections ==
    \/ \E p \in Positions : MapPress(p)
    \/ LocateMe
    \/ \E t \in TaskIds, p \in Positions : LocateResolve(t, Some(p))
    \/ \E t \in TaskIds, resp \in DirectionResponses : RouteResolveLogged(t, resp)

SpecDirections == InitDecode /\ [][NextDirections]_vars

-----------------------------------------------------------------------------
(* The decoder the specification describes (spec 4.1), for the statements     *)
(* that name it: 5-bit chunks offset by 63, zig-zag deltas, running sums.     *)
(* Values stay in units of 1e-5 degree, the division by 1e5 left to the       *)
(* reader of a coordinate.                                                    *)

\* one chunk sequence from chars[pos]: ok is FALSE when the input ends in it
RECURSIVE readChunks(_, _, _, _)
readChunks(chars, pos, groupIndex, result) ==
    IF pos > Len(chars) THEN [ok |-> FALSE, result |-> result, next |-> pos]
    ELSE LET b   == chars[pos] - 63
             acc == result + (b % 32) * (32 ^ groupIndex)
         IN  IF b >= 32 THEN readChunks(chars, pos + 1, groupIndex + 1, acc)
             ELSE [ok |-> TRUE, result |-> acc, next |-> pos + 1]

\* odd result -> ~(result >> 1), even result -> result >> 1
zigZag(result) == IF result % 2 = 1 THEN 0 - (result \div 2) - 1 ELSE result \div 2

\* decode from chars[pos] on with accumulators lat, lng: ok and the path
RECURSIVE decodeFrom(_, _, _, _, _)
decodeFrom(chars, pos, lat, lng, path) ==
    IF pos > Len(chars) THEN [ok |-> TRUE, path |-> path]
    ELSE LET a == readChunks(chars, pos, 0, 0)
             b == readChunks(chars, a.next, 0, 0)
         IN  IF ~a.ok \/ ~b.ok THEN [ok |-> FALSE, path |-> <<>>]
             ELSE LET newLat == lat + zigZag(a.result)
                      newLng == lng + zigZag(b.result)
                  IN  decodeFrom(chars, b.next, newLat, newLng,
                                 Append(path, LatLng(Some(newLat), Some(newLng))))

decode(chars) == decodeFrom(chars, 1, 0, 0, <<>>)

\* (38.5, -120.2), (40.7, -120.95), (43.252, -126.453) in units of 1e-5 degree
CanonicalPath ==
    << LatLng(Some(3850000), Some(-12020000)), LatLng(Some(4070000), Some(-12095000)),
       LatLng(Some(4325200), Some(-12645300)) >>

-----------------------------------------------------------------------------
(* Properties of the conversion, under SpecDecode.                            *)

\* the fetchRoute call that settled in the last step, when there is one
Settled == ev # null
Answer == ev[1].resp
Converted == Settled /\ ~ev[1].failed
\* the entries of the answer's coordinates array
Entries == Answer.geometry.coordinates[1]

\* a routes[0] whose geometry is cut short: the truncated polyline, or an
\* entry that is no [lon, lat] pair
Malformed(resp) ==
    /\ resp.kind = "routes"
    /\ \/ resp.geometry = Encoded(TruncatedPolyline)
       \/ /\ resp.geometry.coordinates # null
          /\ \E i \in DOMAIN resp.geometry.coordinates[1] :
                Len(resp.geometry.coordinates[1][i].items) < 2

\* C1 (as claimed): a fetchRoute call handed malformed geometry fails, and the
\* route holds no point made from it: the route is what it was before.
C1_MalformedGeometryFails ==
    [][(ev' # null /\ Malformed(ev'[1].resp)) => (ev'[1].failed /\ route' = route)]_vars

\* C2: after a conversion the i-th point of the route is built from the i-th
\* entry of the input: latitude from its second component, longitude from its
\* first.
C2_PathFollowsInputOrder ==
    Converted =>
        \A i \in DOMAIN route :
            /\ i \in DOMAIN Entries
            /\ route[i].latitude = At(Entries[i].items, 1)
            /\ route[i].longitude = At(Entries[i].items, 0)

\* a conversion of two different entries, in their order
C2_Witness ==
    /\ Converted
    /\ Answer.geometry = GeoJson(<<Arr(<<1, 2>>), Arr(<<1>>)>>)
    /\ route = <<LatLng(Some(2), Some(1)), LatLng(null, Some(1))>>

\* C3: for a valid geometry (every entry a complete pair) the route holds as
\* many points as the input holds pairs, the last one made from the last pair:
\* the conversion ends only when the whole input is used.
ValidEntries == \A i \in DOMAIN Entries : Entries[i].isArray /\ Len(Entries[i].items) >= 2
C7_SameInputSameRoute ==
    (Settled /\ remembered # null /\ Answer.kind = "routes"
        /\ Answer.geometry = remembered[1].geometry)
    => (~ev[1].failed /\ route = remembered[1].route)

\* three calls settled: the second was remembered, the third has its input,
\* and the route is not the empty one every behaviour starts with
C7_Witness ==
    /\ Settled /\ remembered # null
    /\ started = 3 /\ \A t \in TaskIds : tasks[t] = Idle
    /\ remembered[1].call = 2 /\ ev[1].call = 3
    /\ Answer.geometry = remembered[1].geometry
    /\ route # <<>>

\* C10: a stored distance reads <digits>.<two digits> km, and the value a
\* fetchRoute call stores for a distance of d metres is a multiple of 0.01
\* nearest to d / 1000.
IsDigit(c) == c \in {"0", "1", "2", "3", "4", "5", "6", "7", "8", "9"}
DigitValue(c) == CHOOSE n \in 0..9 : Digit(n) = c
RECURSIVE NumberOf(_)
NumberOf(cs) ==
    IF cs = <<>> THEN 0
    ELSE 10 * NumberOf(SubSeq(cs, 1, Len(cs) - 1)) + DigitValue(cs[Len(cs)])
WellFormedKm(text) ==
    /\ Len(text) >= 7
    /\ SubSeq(text, Len(text) - 2, Len(text)) = <<" ", "k", "m">>
    /\ text[Len(text) - 5] = "."
    /\ \A i \in (1..(Len(text) - 6)) \cup {Len(text) - 4, Len(text) - 3} : IsDigit(text[i])
    /\ (Len(text) > 7 => text[1] # "0")
\* the hundredths of a kilometre a well-formed text shows
HundredthsOf(text) ==
    NumberOf(SubSeq(text, 1, Len(text) - 6) \o SubSeq(text, Len(text) - 4, Len(text) - 3))
C10_DistanceTwoDecimalsKm ==
    /\ distance # null => WellFormedKm(distance[1])
    /\ Converted =>
          /\ distance # null
          /\ LET n == HundredthsOf(distance[1])
                 d == Answer.distance
             IN  10 * n - d \in -5..5

\* Sao Paulo - Rio, 357004 m, shown as 357.00 km
C10_Witness ==
    /\ Converted
    /\ Answer.distance = 357004
    /\ distance = Some(<<"3", "5", "7", ".", "0", "0", " ", "k", "m">>)

-----------------------------------------------------------------------------
(* Properties of the handlers, under Spec.                                    *)

\* C8 (as claimed): overlapping route computations do not overwrite each
\* other's data.  When the call of a map press settles right after a call that
\* started while it was in flight has stored its route, the route and
\* distance on display stay as that call stored them.
C8_NoCallOverwritesAnother ==
    [][(ev # null /\ ~ev[1].failed /\ ev' # null /\ ev'[1].caller = "press"
            /\ ev[1].call > ev'[1].call)
        => (route' = route /\ distance' = distance)]_vars

\* C9 (as claimed): the handler awaiting a failed fetchRoute observes the
\* failure: the catch of searchLocation shows its alert, the catch of locateMe
\* sets its message.
C9_CallerObservesFailure ==
    (Settled /\ ev[1].failed) =>
        /\ ev[1].caller = "search" => alert # null /\ alert[1][1] = "Erro"
        /\ ev[1].caller = "locate" =>
              errorMsg = Some("Não foi possível atualizar a localização")

\* C9 (amended): a failure of fetchRoute is caught inside fetchRoute, which
\* stores the error's message in errorMsg; the promise it returned fulfils, so
\* the awaiting handler runs no catch (no alert, no message of its own) and
\* goes on to its finally.
C9_FailureStaysInFetchRoute ==
    (Settled /\ ev[1].failed) =>
        /\ ~ev[1].caught
        /\ alert = null
        /\ errorMsg # null
        /\ errorMsg # Some("Não foi possível atualizar a localização")
        /\ Answer.kind = "notOk" => errorMsg = Some("Erro ao calcular rota")
        /\ Answer.kind = "noRoutes" => errorMsg = Some("Rota não disponível")
        /\ ev[1].caller \in {"search", "locate"} => ~loading

\* the routing request of a search came back not ok
C9_Witness ==
    /\ Settled /\ ev[1].failed
    /\ ev[1].caller = "search"
    /\ Answer.kind = "notOk"
    /\ errorMsg = Some("Erro ao calcular rota")
    /\ alert = null

-----------------------------------------------------------------------------
(* Distances (C11, C12).  The component computes no distance from two         *)
(* coordinates: the distance of a call from a to b is the one the routing     *)
(* service answers, formatted by fetchRoute.                                  *)

\* the call that settled and the remembered one went between the same two
\* different coordinates in opposite directions
Opposite ==
    /\ Converted
    /\ remembered # null
    /\ ev[1].org # ev[1].dst
    /\ remembered[1].org = ev[1].dst
    /\ remembered[1].dst = ev[1].org

ToItself == Converted /\ ev[1].org = ev[1].dst

-----------------------------------------------------------------------------
(* Overlapping handlers (C13, C14, C15).                                      *)

\* C13 as stated: the displayed route and distance are the ones returned for
\* the current destination: once the call for the current destination has
\* stored its route, a response for another, older destination that arrives
\* in the next step leaves route and distance as they are.
C13_OlderResponseKeepsDisplay ==
    [][(/\ ev # null /\ ev' # null
        /\ ~ev[1].failed
        /\ ev[1].dst = destination
        /\ destination' = destination
        /\ ev'[1].dst # destination)
          => (route' = route /\ distance' = distance)]_vars

\* C14 as stated: when locateMe obtains a position while a destination is set,
\* the route request it issues goes from the origin it has just stored.
C14_LocateRoutesFromNewOrigin ==
    [][\A t \in TaskIds :
          (/\ tasks[t].kind = "locate" /\ tasks[t].pc = "position"
           /\ tasks'[t].pc = "route")
            => tasks'[t].org = origin']_vars

\* the operations that set loading: the initial effect, searchLocation past
\* its blank check, locateMe
LoadingOperationInFlight ==
    \/ initPc \in {"permission", "position"}
    \/ \E t \in TaskIds : tasks[t].kind \in {"search", "locate"}

\* C15 as stated: in every reachable state loading is true whenever at least
\* one of the operations that set it is still in flight.
C15_LoadingWhileInFlight ==
    LoadingOperationInFlight => loading

-----------------------------------------------------------------------------
(* loading comes back to false (C16).                                         *)

\* C16: every operation that sets loading to true sets it back to false on
\* every exit path: when every awaited call settles, the operations in flight
\* all end, and whenever none is in flight loading is false.
C16_LoadingComesBack ==
    /\ [](~LoadingOperationInFlight => ~loading)
    /\ LoadingOperationInFlight ~> ~LoadingOperationInFlight

\* the initial effect stored a position, two operations were started, and the
\* last to end was a searchLocation whose fetchRoute failed
C16_Witness ==
    /\ ~LoadingOperationInFlight
    /\ ~loading
    /\ started = MaxOps
    /\ initPc = "done" /\ origin # null
    /\ Settled /\ ev[1].caller = "search" /\ ev[1].failed

-----------------------------------------------------------------------------
(* What fetchRoute leaves alone (C17, C18).                                   *)

\* C17: a fetchRoute call that fails sets errorMsg to its error and leaves
\* route, distance, origin and destination as they are; a call that returns at
\* once (origin or dest missing) issues no request and leaves route, distance
\* and errorMsg as they are.
C17_FailureAndEarlyReturnFrame ==
    [][/\ (ev' # null /\ ev'[1].failed)
            => /\ errorMsg' = fetchRouteError(ev'[1].resp)
               /\ errorMsg' # null
               /\ route' = route /\ distance' = distance
               /\ origin' = origin /\ destination' = destination
       /\ early'
            => /\ route' = route /\ distance' = distance /\ errorMsg' = errorMsg
               /\ \A t \in TaskIds : tasks'[t].pc = "route" => tasks[t].pc = "route"]_vars

\* a call failed after an earlier one had stored a route: the route and the
\* distance are still on display, next to the error
C17_Witness ==
    /\ Settled /\ ev[1].failed
    /\ errorMsg = Some("Rota não disponível")
    /\ route # <<>> /\ distance # null
    /\ ev[1].dst = destination

\* C18: a routing request is in flight, and route or distance is set, only if
\* an origin is known: while origin is null, whatever searches and map presses
\* happened, no request was issued and route and distance are still [] and
\* null.
C18_NoRouteWithoutOrigin ==
    origin = null
        => /\ route = <<>>
           /\ distance = null
           /\ \A t \in TaskIds : tasks[t].pc # "route"

\* the initial effect ended without a position; two handlers ran since, a
\* destination is set, and the last fetchRoute call returned at once
C18_Witness ==
    /\ origin = null /\ initPc = "done"
    /\ started = MaxOps
    /\ early
    /\ destination # null
    /\ \A t \in TaskIds : tasks[t] = Idle
    /\ route = <<>> /\ distance = null

====
